---------------------------- MODULE Spec2Model ----------------------------
(***************************************************************************)
(* Clip-extraction pipeline of ny-feoko: the chunk streamer                *)
(* (ny_feoko_shared/audio_io.py), the segment grouper                      *)
(* (clip_extraction/domain/segment_grouping.py and the copy in             *)
(* clip_extraction/pipeline.py), the orchestrator run_pipeline and the     *)
(* ClipWriter.                                                             *)
(*                                                                         *)
(* Time is counted in ticks of half a second, so that the default policy   *)
(* (min_duration 5.0 s, max_duration 30.0 s, max_gap 1.5 s, overlap 2 s)   *)
(* is integral: 10, 60, 3 and 4 ticks.  Scores are counted in hundredths.  *)
(***************************************************************************)
EXTENDS Integers, Sequences, FiniteSets, TLC

VARIABLES
    \* ---- group_segments called on its own (SpecGrouping)
    call,         \* the arguments of the call
    results,      \* the list group_segments returned
    returned,     \* whether the call has returned
    \* ---- stream_chunks (SpecStream, and inside run_pipeline)
    file_duration,       \* the duration ffprobe reports for the file, in ticks
    chunk_duration_sec,  \* argument, whole seconds
    overlap_sec,         \* argument, whole seconds
    total_sec,           \* local of the generator, in ticks
    pos,                 \* local of the generator, in ticks
    chunks,              \* the (read_start, read_duration) pairs yielded so far
    stream_pc,           \* "start", "loop" or "done"
    \* ---- run_pipeline (Spec)
    pc,                  \* the orchestrator's position
    speech,              \* the speech regions of the file, file-absolute (what detect hears)
    speech_threshold,    \* argument, hundredths
    segments,            \* what vad.detect returned for the current chunk
    candidates,          \* what group_segments returned for the current chunk
    ci,                  \* index of the current candidate in candidates
    scores,              \* (speech_score, music_score) of the current candidate
    transcript,          \* result_dict of the current candidate
    stats,               \* total_clips, total_accepted, whisper_rejected_count
    writer,              \* the ClipWriter: _counter, _rows
    fs,                  \* the run directory: clips_dir, clip files, metadata.csv
    events,              \* the calls made so far to the ports and the writer
    \* ---- run_pipeline run twice on one file (SpecRerun)
    run,                 \* which run is under way: 1 or 2
    first_rows,          \* the metadata rows of the first run
    classified,          \* the classifier as a function: audio -> scores, as asked so far
    transcribed,         \* the transcriber as a function: audio -> result, as asked so far
    \* ---- paginate_table (SpecPaginate)
    table,               \* the rows the query selects, in the server's order
    all_rows,            \* local: the rows fetched so far
    offset,              \* local
    requests,            \* the (start, end) pairs passed to query.range so far
    page_pc              \* "loop" or "done"

grouping_vars == <<call, results, returned>>
stream_vars == <<file_duration, chunk_duration_sec, overlap_sec, total_sec, pos,
                 chunks, stream_pc>>
pipeline_vars == <<pc, speech, speech_threshold, segments, candidates, ci, scores,
                   transcript, stats, writer, fs, events>>
rerun_vars == <<run, first_rows, classified, transcribed>>
pagination_vars == <<table, all_rows, offset, requests, page_pc>>
vars == <<grouping_vars, stream_vars, pipeline_vars, rerun_vars, pagination_vars>>

Min(a, b) == IF a <= b THEN a ELSE b
Max(a, b) == IF a >= b THEN a ELSE b

Last(s) == s[Len(s)]

(***************************************************************************)
(* Bounds of the model                                                     *)
(***************************************************************************)
MaxTime == 7          \* segment boundaries of the grouping inputs: 0..MaxTime
MaxSegs == 3          \* segments per grouping input
MaxMinDuration == 2   \* min_duration of the drawn policies: 0..MaxMinDuration
MaxMaxDuration == 4   \* max_duration of the drawn policies: 2..MaxMaxDuration
MaxMaxGap == 1        \* max_gap of the drawn policies: 0..MaxMaxGap
SamplesPerTick == 2   \* sample_rate, in samples per tick
MaxFileDuration == 14 \* file durations of the streaming runs: 0..MaxFileDuration ticks
MaxChunkSec == 3      \* chunk_duration_sec of the streaming runs: 1..MaxChunkSec
MaxOverlapSec == 3    \* overlap_sec of the streaming runs: 0..MaxOverlapSec
MaxRunChunkSec == 6   \* chunk_duration of the pipeline runs: 6..MaxRunChunkSec seconds
MaxRunFileSteps == 5  \* file durations of the pipeline runs: up to MaxRunFileSteps * 6 ticks
MaxRegions == 2       \* speech regions in the file of a pipeline run
MaxWriterCalls == 4   \* calls made on a ClipWriter taken on its own
MaxSliceTime == 5     \* group spans of the slicing calls: within 0..MaxSliceTime ticks
MaxSliceRate == 3     \* sample_rate of the slicing calls: 1..MaxSliceRate samples per second
MaxSliceLen == 6      \* len(audio) of the slicing calls: 0..MaxSliceLen samples
MaxFullPages == 2     \* full pages in the tables of the pagination calls: 0..MaxFullPages
MaxClipJitter == 6   \* the detected segment starts and is longer than 5 s by 0..MaxClipJitter units
MaxStartOffset == 1  \* audio_start_sec of the calls to both grouping functions: 0..MaxStartOffset ticks
MaxOddRows == 8       \* rows over or under a whole number of pages: 0..MaxOddRows

(***************************************************************************)
(* Program constants, in ticks of 0.5 s                                    *)
(***************************************************************************)
DEFAULT_MIN_DURATION == 10
DEFAULT_MAX_DURATION == 60
DEFAULT_MAX_GAP == 3
DEFAULT_OVERLAP_SEC == 2          \* whole seconds
DEFAULT_SPEECH_THRESHOLD == 35    \* hundredths
NO_SPEECH_THRESHOLD == 60         \* hundredths

(***************************************************************************)
(* models.py                                                               *)
(***************************************************************************)
AudioSegment(s, e) == [start_sec |-> s, end_sec |-> e]

\* ClipCandidate.start_sec / end_sec / duration
CandStart(c) == c.segments[1].start_sec
CandEnd(c) == Last(c.segments).end_sec
CandDuration(c) == CandEnd(c) - CandStart(c)

(***************************************************************************)
(* domain/segment_grouping.py: group_segments                              *)
(***************************************************************************)

\* Faulty variant of the join test: the gap bound dropped.
JoinsGroupNoGap(seg, group, max_duration, max_gap) ==
    seg.end_sec - group[1].start_sec <= max_duration

\* Faulty variant of the join test: both bounds exclusive.
JoinsGroupStrict(seg, group, max_duration, max_gap) ==
    LET gap == seg.start_sec - Last(group).end_sec
        group_duration == seg.end_sec - group[1].start_sec
    IN  gap < max_gap /\ group_duration < max_duration

\* line 30-33: the test that lets seg join the current group
JoinsGroup(seg, group, max_duration, max_gap) ==
    LET gap == seg.start_sec - Last(group).end_sec
        group_duration == seg.end_sec - group[1].start_sec
    IN  gap <= max_gap /\ group_duration <= max_duration

\* lines 26-39: the scan. st = [candidates, group] after the segments seen so far.
RECURSIVE ScanFrom(_, _, _, _, _)
ScanFrom(segs, i, st, max_duration, max_gap) ==
    IF i > Len(segs)
    THEN Append(st.candidates, st.group)                       \* line 39
    ELSE LET seg == segs[i] IN
         IF JoinsGroup(seg, st.group, max_duration, max_gap)
         THEN ScanFrom(segs, i + 1,
                       [candidates |-> st.candidates,
                        group |-> Append(st.group, seg)],       \* line 34
                       max_duration, max_gap)
         ELSE ScanFrom(segs, i + 1,
                       [candidates |-> Append(st.candidates, st.group),
                        group |-> <<seg>>],                     \* lines 36-37
                       max_duration, max_gap)

\* Faulty variant of the scan: the loop starts one segment too late.
CloseGroupsSkipSecond(segs, max_duration, max_gap) ==
    ScanFrom(segs, 3, [candidates |-> <<>>, group |-> <<segs[1]>>],
             max_duration, max_gap)

\* line 27 and 29: the first group holds segs[0], the scan takes segs[1:]
CloseGroups(segs, max_duration, max_gap) ==
    ScanFrom(segs, 2, [candidates |-> <<>>, group |-> <<segs[1]>>],
             max_duration, max_gap)

\* Faulty variant of the minimum-duration filter: every group kept.
KeepsGroupAll(group, min_duration) == TRUE

\* lines 43-45: a closed group is kept unless its span is below min_duration
KeepsGroup(group, min_duration) ==
    LET duration == Last(group).end_sec - group[1].start_sec
    IN  ~(duration < min_duration)

\* Python's int() of the fraction num / den, den > 0: the fraction is cut
\* toward zero.
int(num, den) == IF num >= 0 THEN num \div den ELSE -((-num) \div den)

\* Faulty variant of the slice: the end index is not held to the audio's length.
SliceIndicesNoClamp(start_sec, end_sec, audio_start_sec, rate, per, audio_len) ==
    [start_sample |-> int((start_sec - audio_start_sec) * rate, per),
     end_sample |-> int((end_sec - audio_start_sec) * rate, per)]

\* lines 47-49: the sample indices of a group's span, for a sample rate of
\* rate samples in per units of time.
SliceIndices(start_sec, end_sec, audio_start_sec, rate, per, audio_len) ==
    LET start_sample == int((start_sec - audio_start_sec) * rate, per)
        end_sample == int((end_sec - audio_start_sec) * rate, per)
    IN  [start_sample |-> start_sample,
         end_sample |-> Min(end_sample, audio_len)]

\* lines 47-56: the candidate built from a kept group.  The audio slice
\* audio[start_sample:end_sample] is carried as its two indices; sample_rate is
\* in samples per tick.
MakeCandidate(group, audio_len, sample_rate, audio_start_sec) ==
    LET slice == SliceIndices(group[1].start_sec, Last(group).end_sec,
                              audio_start_sec, sample_rate, 1, audio_len)
    IN  [segments |-> group,
         start_sample |-> slice.start_sample,
         end_sample |-> slice.end_sample]

RECURSIVE BuildResults(_, _, _, _, _, _)
BuildResults(groups, i, audio_len, sample_rate, audio_start_sec, min_duration) ==
    IF i > Len(groups) THEN <<>>
    ELSE LET rest == BuildResults(groups, i + 1, audio_len, sample_rate,
                                  audio_start_sec, min_duration)
         IN  IF KeepsGroup(groups[i], min_duration)
             THEN <<MakeCandidate(groups[i], audio_len, sample_rate,
                                  audio_start_sec)>> \o rest
             ELSE rest

group_segments(segs, audio_len, sample_rate, audio_start_sec, min_duration, max_duration, max_gap) ==
    IF segs = <<>> THEN <<>>                                \* lines 23-24
    ELSE BuildResults(CloseGroups(segs, max_duration, max_gap), 1,
                      audio_len, sample_rate, audio_start_sec, min_duration)

(***************************************************************************)
(* Inputs of the grouping calls: time-ordered, non-overlapping segments of *)
(* positive length, as a detector returns them.                            *)
(***************************************************************************)
RECURSIVE SegSeqs(_, _)
SegSeqs(n, T) ==
    IF n = 0 THEN {<<>>}
    ELSE LET prev == SegSeqs(n - 1, T)
         IN  prev \cup
             { Append(p, AudioSegment(s, e)) :
                 <<p, s, e>> \in
                   { <<p, s, e>> \in { q \in prev : Len(q) = n - 1 } \X (0..T) \X (0..T) :
                       /\ s < e
                       /\ (p # <<>> => Last(p).end_sec <= s) } }

Policies ==
    [min_duration : 0..MaxMinDuration,
     max_duration : 2..MaxMaxDuration,
     max_gap : 0..MaxMaxGap]

DefaultPolicy ==
    [min_duration |-> DEFAULT_MIN_DURATION,
     max_duration |-> DEFAULT_MAX_DURATION,
     max_gap |-> DEFAULT_MAX_GAP]

\* tests/test_segment_grouping.py: the segments and the audio length (ticks)
\* of the five tests, which run under the default policy
TestInputs ==
    { <<<<AudioSegment(0, 6), AudioSegment(7, 13)>>, 20>>,
      <<<<AudioSegment(0, 6), AudioSegment(16, 22)>>, 30>>,
      <<<<AudioSegment(0, 12), AudioSegment(18, 30)>>, 40>>,
      <<<<>>, 20>>,
      <<<<AudioSegment(0, 4)>>, 20>> }

MakeCall(segs, audio_len, policy) ==
    [segments |-> segs,
     audio_len |-> audio_len,
     sample_rate |-> SamplesPerTick,
     audio_start_sec |-> 0,
     min_duration |-> policy.min_duration,
     max_duration |-> policy.max_duration,
     max_gap |-> policy.max_gap]

GroupingCalls ==
    { MakeCall(s, MaxTime * SamplesPerTick, p) :
        <<s, p>> \in SegSeqs(MaxSegs, MaxTime) \X Policies }
    \cup { MakeCall(t[1], t[2] * SamplesPerTick, DefaultPolicy) : t \in TestInputs }

\* The variables of a part that a specification does not use.
NoCall == MakeCall(<<>>, 0, DefaultPolicy)
GroupingUnused == call = NoCall /\ results = <<>> /\ returned = FALSE
RerunUnused == run = 1 /\ first_rows = <<>> /\ classified = {} /\ transcribed = {}
PaginationUnused ==
    /\ table = <<>> /\ all_rows = <<>> /\ offset = 0 /\ requests = <<>>
    /\ page_pc = "unused"
NoScores == [speech_score |-> 0, music_score |-> 0]
NoTranscript == [no_speech_prob |-> 0]
PipelineUnused ==
    /\ pc = "unused" /\ speech = <<>> /\ speech_threshold = DEFAULT_SPEECH_THRESHOLD
    /\ segments = <<>> /\ candidates = <<>> /\ ci = 0
    /\ scores = NoScores /\ transcript = NoTranscript
    /\ stats = [total_clips |-> 0, total_accepted |-> 0, whisper_rejected_count |-> 0]
    /\ writer = [_counter |-> 0, _rows |-> <<>>]
    /\ fs = [clips_dir |-> FALSE, clips |-> {}, metadata |-> <<>>, has_metadata |-> FALSE]
    /\ events = <<>>
StreamUnused ==
    /\ file_duration = 0 /\ chunk_duration_sec = 1 /\ overlap_sec = 0
    /\ total_sec = 0 /\ pos = 0 /\ chunks = <<>> /\ stream_pc = "done"

InitGrouping ==
    /\ call \in GroupingCalls
    /\ results = <<>>
    /\ returned = FALSE
    /\ StreamUnused
    /\ PipelineUnused
    /\ RerunUnused
    /\ PaginationUnused

GroupSegmentsCall ==
    /\ ~returned
    /\ results' = group_segments(call.segments, call.audio_len, call.sample_rate,
                                 call.audio_start_sec, call.min_duration,
                                 call.max_duration, call.max_gap)
    /\ returned' = TRUE
    /\ UNCHANGED <<call, stream_vars, pipeline_vars, rerun_vars, pagination_vars>>

NextGrouping == GroupSegmentsCall

SpecGrouping == InitGrouping /\ [][NextGrouping]_vars

(***************************************************************************)
(* Claims about group_segments (checked under SpecGrouping)                *)
(***************************************************************************)
Range(s) == { s[i] : i \in 1..Len(s) }
SegDuration(seg) == seg.end_sec - seg.start_sec
Candidates == { results[i] : i \in 1..Len(results) }

\* C1: group_segments never returns a candidate whose duration (last segment
\* end minus first segment start) exceeds max_duration, also when a single
\* input segment is itself longer than max_duration.
C1_DurationAtMostMax ==
    returned => \A c \in Candidates : CandDuration(c) <= call.max_duration

\* C2: group_segments never returns a candidate whose duration is below
\* min_duration; shorter groups, a single short segment included, are
\* discarded and the call still returns.
C2_DurationAtLeastMin ==
    returned =>
        /\ \A c \in Candidates : CandDuration(c) >= call.min_duration
        /\ (Len(call.segments) = 1
               /\ SegDuration(call.segments[1]) < call.min_duration
            => results = <<>>)

\* C2 witness: a call that returned a candidate and discarded a short group.
C2_Witness ==
    /\ returned
    /\ results # <<>>
    /\ \E i \in 1..Len(call.segments) :
          /\ SegDuration(call.segments[i]) < call.min_duration
          /\ \A c \in Candidates : call.segments[i] \notin Range(c.segments)

\* C3: the segments of each returned candidate are a non-empty contiguous
\* sub-run of the input sequence, in input order.
C3_ContiguousSubRun ==
    returned =>
        \A c \in Candidates :
            /\ c.segments # <<>>
            /\ \E i \in 1..Len(call.segments) :
                  /\ i + Len(c.segments) - 1 <= Len(call.segments)
                  /\ c.segments = SubSeq(call.segments, i, i + Len(c.segments) - 1)

\* C3 witness: a candidate of several segments that is a proper part of a
\* three-segment input.
C3_Witness ==
    /\ returned
    /\ Len(call.segments) = 3
    /\ \E c \in Candidates : Len(c.segments) = 2

\* C4: two consecutive input segments whose gap is strictly greater than
\* max_gap are never in the same candidate; each side then meets the
\* min_duration filter on its own (two 6 s segments 3 s apart, default
\* policy: two candidates of 6 s each).
C4_LargeGapSeparates ==
    returned =>
        /\ \A i \in 1..(Len(call.segments) - 1) :
              call.segments[i + 1].start_sec - call.segments[i].end_sec > call.max_gap
              => \A c \in Candidates :
                    ~(call.segments[i] \in Range(c.segments)
                      /\ call.segments[i + 1] \in Range(c.segments))
        /\ (Len(call.segments) = 2
               /\ call.segments[2].start_sec - call.segments[1].end_sec > call.max_gap
            => Len(results) =
                 Cardinality({ i \in 1..2 :
                                 SegDuration(call.segments[i]) >= call.min_duration }))
        /\ (call.segments = <<AudioSegment(0, 12), AudioSegment(18, 30)>>
               /\ call.max_gap = DEFAULT_MAX_GAP
               /\ call.min_duration = DEFAULT_MIN_DURATION
            => /\ Len(results) = 2
               /\ CandDuration(results[1]) = 12
               /\ CandDuration(results[2]) = 12)

\* C4 witness: two segments further apart than max_gap, each long enough,
\* returned as two candidates.
C4_Witness ==
    /\ returned
    /\ Len(call.segments) = 2
    /\ call.segments[2].start_sec - call.segments[1].end_sec > call.max_gap
    /\ call.segments[2].end_sec - call.segments[1].start_sec <= call.max_duration
    /\ Len(results) = 2

(***************************************************************************)
(* shared/ny_feoko_shared/audio_io.py: stream_chunks                       *)
(***************************************************************************)
\* Whole seconds (the int arguments) in ticks of half a second.
Ticks(sec) == 2 * sec

\* Faulty variants of read_start: min for max; the overlap forgotten.
ReadStartMin(p, overlap) == IF p > 0 THEN Min(0, p - overlap) ELSE 0
ReadStartNoOverlap(p, overlap) == p

\* line 62
ReadStart(p, overlap) == IF p > 0 THEN Max(0, p - overlap) ELSE 0

\* Faulty variants of read_duration: the overlap not added; the clamp to the
\* file end forgotten.
ReadDurationNoExtension(p, read_start, chunk, overlap, total) ==
    Min(chunk, total - read_start)
ReadDurationNoClamp(p, read_start, chunk, overlap, total) ==
    chunk + (IF p > 0 THEN overlap ELSE 0)

\* Faulty variant of read_duration: the clamp measured from pos, not from
\* read_start.
ReadDurationFromPos(p, read_start, chunk, overlap, total) ==
    Min(chunk + (IF p > 0 THEN overlap ELSE 0), total - p)

\* lines 63-64
ReadDuration(p, read_start, chunk, overlap, total) ==
    Min(chunk + (IF p > 0 THEN overlap ELSE 0), total - read_start)

\* line 58-59: the first next() probes the duration and sets pos
StreamStart ==
    /\ stream_pc = "start"
    /\ total_sec' = file_duration
    /\ pos' = 0
    /\ stream_pc' = "loop"
    /\ UNCHANGED <<file_duration, chunk_duration_sec, overlap_sec, chunks>>

\* Faulty variant of the loop's turn: pos advances from read_start.
StreamYieldAdvancesFromReadStart ==
    /\ stream_pc = "loop"
    /\ pos < total_sec
    /\ LET read_start == ReadStart(pos, Ticks(overlap_sec))
           read_duration == ReadDuration(pos, read_start, Ticks(chunk_duration_sec),
                                         Ticks(overlap_sec), total_sec)
       IN  /\ chunks' = Append(chunks, [chunk_start |-> read_start,
                                         read_start |-> read_start,
                                         read_duration |-> read_duration,
                                         pos |-> pos])
           /\ pos' = read_start + Ticks(chunk_duration_sec)
    /\ UNCHANGED <<file_duration, chunk_duration_sec, overlap_sec, total_sec, stream_pc>>

\* lines 61-69: one turn of the loop.  The chunk is requested from
\* load_audio_segment (read_start, read_duration) and yielded with its start
\* (chunk_start); pos advances when the generator is resumed, before the loop
\* condition is tested again.
StreamYield ==
    /\ stream_pc = "loop"
    /\ pos < total_sec
    /\ LET read_start == ReadStart(pos, Ticks(overlap_sec))
           read_duration == ReadDuration(pos, read_start, Ticks(chunk_duration_sec),
                                         Ticks(overlap_sec), total_sec)
       IN  chunks' = Append(chunks, [chunk_start |-> read_start,
                                      read_start |-> read_start,
                                      read_duration |-> read_duration,
                                      pos |-> pos])
    /\ pos' = pos + Ticks(chunk_duration_sec)
    /\ UNCHANGED <<file_duration, chunk_duration_sec, overlap_sec, total_sec, stream_pc>>

\* line 61: the loop condition fails and the generator is exhausted
StreamStop ==
    /\ stream_pc = "loop"
    /\ ~(pos < total_sec)
    /\ stream_pc' = "done"
    /\ UNCHANGED <<file_duration, chunk_duration_sec, overlap_sec, total_sec, pos,
                   chunks>>

\* tests/test_audio_io.py, lines 43-62: 30 s read in chunks of 10 s with the
\* default overlap
StreamTest == [file_duration |-> 60, chunk_duration_sec |-> 10, overlap_sec |-> 2]

InitStream ==
    /\ \/ /\ file_duration \in 0..MaxFileDuration
          /\ chunk_duration_sec \in 1..MaxChunkSec
          /\ overlap_sec \in 0..MaxOverlapSec
       \/ /\ file_duration = StreamTest.file_duration
          /\ chunk_duration_sec = StreamTest.chunk_duration_sec
          /\ overlap_sec = StreamTest.overlap_sec
    /\ total_sec = 0
    /\ pos = 0
    /\ chunks = <<>>
    /\ stream_pc = "start"
    /\ GroupingUnused
    /\ RerunUnused
    /\ PaginationUnused
    /\ PipelineUnused

NextStream ==
    \/ StreamStart /\ UNCHANGED <<grouping_vars, pipeline_vars, rerun_vars, pagination_vars>>
    \/ StreamYield /\ UNCHANGED <<grouping_vars, pipeline_vars, rerun_vars, pagination_vars>>
    \/ StreamStop /\ UNCHANGED <<grouping_vars, pipeline_vars, rerun_vars, pagination_vars>>

SpecStream == InitStream /\ [][NextStream]_vars

(***************************************************************************)
(* Claims about stream_chunks (checked under SpecStream)                   *)
(***************************************************************************)
\* The time window [chunk_start, chunk_start + read_duration) of a chunk.
WindowEnd(ch) == ch.chunk_start + ch.read_duration
InWindow(s, e, ch) == ch.chunk_start <= s /\ e <= WindowEnd(ch)
Yielded == { chunks[i] : i \in 1..Len(chunks) }

\* C5: for a file of duration D, chunk size C > 0 and overlap O >= 0, the
\* windows [chunk_start, chunk_start + read_duration) of the yielded chunks
\* together cover [0, D) with no gap.  (All bounds are whole ticks, so [0, D)
\* is covered exactly when every tick [t, t+1) of it is inside a window.)
C5_WindowsCoverFile ==
    stream_pc = "done" =>
        \A t \in 0..(total_sec - 1) : \E ch \in Yielded : InWindow(t, t + 1, ch)

\* C5 witness: a finished stream of at least three chunks with an overlap,
\* the last one cut at the end of the file.
C5_Witness ==
    /\ stream_pc = "done"
    /\ Len(chunks) >= 3
    /\ overlap_sec > 0
    /\ total_sec % Ticks(chunk_duration_sec) # 0

\* C6 as stated: for any D, C and O only the first chunk has chunk_start = 0;
\* the first chunk has no backward extension and every later chunk starts
\* strictly after 0.
C6_OnlyFirstStartsAtZero ==
    \A i \in 1..Len(chunks) :
        IF i = 1
        THEN chunks[i].chunk_start = 0
             /\ chunks[i].read_duration = Min(Ticks(chunk_duration_sec), total_sec)
        ELSE chunks[i].chunk_start > 0

\* C6 amended: when overlap_sec < chunk_duration_sec, only the first chunk has
\* chunk_start = 0; the first chunk has no backward extension and every later
\* chunk starts strictly after 0.
C6_OnlyFirstStartsAtZeroSmallOverlap ==
    overlap_sec < chunk_duration_sec => C6_OnlyFirstStartsAtZero

\* C6 witness: a second chunk read with a positive overlap below the chunk size.
C6_Witness ==
    /\ Len(chunks) >= 2
    /\ 0 < overlap_sec
    /\ overlap_sec < chunk_duration_sec

\* C7: every requested chunk has read_start + read_duration <= total duration
\* and read_duration > 0: no chunk asks for audio past the end of the file.
C7_NoReadPastEnd ==
    \A ch \in Yielded :
        /\ WindowEnd(ch) <= total_sec
        /\ ch.read_duration > 0

\* C7 witness: a last chunk that had to be cut to the file's remaining duration.
C7_Witness ==
    /\ stream_pc = "done"
    /\ Len(chunks) >= 2
    /\ Last(chunks).read_duration < Ticks(chunk_duration_sec) + Ticks(overlap_sec)
    /\ WindowEnd(Last(chunks)) = total_sec

\* A speech region [s, e) that spans the chunk boundary b.
Spans(s, e, b) == s < b /\ b < e

RECURSIVE pipeline_ScanFrom(_, _, _, _, _)
pipeline_ScanFrom(segs, i, st, max_duration, max_gap) ==
    IF i > Len(segs)
    THEN Append(st.candidates, st.group)
    ELSE LET seg == segs[i]
             gap == seg.start_sec - Last(st.group).end_sec
             group_duration == seg.end_sec - st.group[1].start_sec
         IN  IF gap <= max_gap /\ group_duration <= max_duration
             THEN pipeline_ScanFrom(segs, i + 1,
                                    [candidates |-> st.candidates,
                                     group |-> Append(st.group, seg)],
                                    max_duration, max_gap)
             ELSE pipeline_ScanFrom(segs, i + 1,
                                    [candidates |-> Append(st.candidates, st.group),
                                     group |-> <<seg>>],
                                    max_duration, max_gap)

\* Faulty variant of the second loop of the pipeline's copy: the end of the
\* slice is not held down to the audio's length.
RECURSIVE pipeline_BuildResultsNoClamp(_, _, _, _, _, _)
pipeline_BuildResultsNoClamp(groups, i, audio_len, sample_rate, audio_start_sec, min_duration) ==
    IF i > Len(groups) THEN <<>>
    ELSE LET group == groups[i]
             duration == Last(group).end_sec - group[1].start_sec
             start_sample == int((group[1].start_sec - audio_start_sec) * sample_rate, 1)
             end_sample == int((Last(group).end_sec - audio_start_sec) * sample_rate, 1)
             rest == pipeline_BuildResultsNoClamp(groups, i + 1, audio_len,
                                                  sample_rate, audio_start_sec,
                                                  min_duration)
         IN  IF duration < min_duration
             THEN rest
             ELSE <<[segments |-> group,
                     start_sample |-> start_sample,
                     end_sample |-> end_sample]>> \o rest

\* lines 48-63
RECURSIVE pipeline_BuildResults(_, _, _, _, _, _)
pipeline_BuildResults(groups, i, audio_len, sample_rate, audio_start_sec, min_duration) ==
    IF i > Len(groups) THEN <<>>
    ELSE LET group == groups[i]
             duration == Last(group).end_sec - group[1].start_sec
             start_sample == int((group[1].start_sec - audio_start_sec) * sample_rate, 1)
             end_sample == int((Last(group).end_sec - audio_start_sec) * sample_rate, 1)
             rest == pipeline_BuildResults(groups, i + 1, audio_len, sample_rate,
                                           audio_start_sec, min_duration)
         IN  IF duration < min_duration
             THEN rest
             ELSE <<[segments |-> group,
                     start_sample |-> start_sample,
                     end_sample |-> Min(end_sample, audio_len)]>> \o rest

\* lines 19-65
pipeline_group_segments(segs, audio_len, sample_rate, audio_start_sec, min_duration, max_duration, max_gap) ==
    IF segs = <<>> THEN <<>>
    ELSE pipeline_BuildResults(
             pipeline_ScanFrom(segs, 2,
                               [candidates |-> <<>>, group |-> <<segs[1]>>],
                               max_duration, max_gap),
             1, audio_len, sample_rate, audio_start_sec, min_duration)

(***************************************************************************)
(* clip_extraction/infrastructure/writer.py: ClipWriter                    *)
(***************************************************************************)
\* lines 15-21: __init__ creates <run dir>/clips and starts with no rows
ClipWriter_init(f) ==
    [writer |-> [_counter |-> 0, _rows |-> <<>>],
     fs |-> [f EXCEPT !.clips_dir = TRUE]]

\* Faulty variant of the counter step: the counter is not advanced.
NextCounterNoIncrement(w) == w._counter

\* line 24: self._counter += 1
NextCounter(w) == w._counter + 1

\* The decimal digits of a natural number, most significant first.
RECURSIVE Digits(_)
Digits(n) == IF n < 10 THEN <<n>> ELSE Append(Digits(n \div 10), n % 10)

RECURSIVE ZeroPad(_, _)
ZeroPad(ds, width) == IF Len(ds) >= width THEN ds ELSE ZeroPad(<<0>> \o ds, width)

\* line 25: f"clip_{self._counter:05d}.wav", the name carried as the digits
\* between "clip_" and ".wav"
clip_name(counter) == ZeroPad(Digits(counter), 5)

\* Faulty variant of flush_metadata: the rows are appended to the table already
\* persisted.
flush_metadataAppend(w, f) ==
    IF w._rows = <<>>
    THEN f
    ELSE [f EXCEPT !.metadata = @ \o w._rows, !.has_metadata = TRUE]

\* lines 34-36: round(x, 2) of a time of t units, per units to the second.  The
\* value is a whole number of hundredths of a second, the nearest one; a time
\* exactly halfway goes to the even neighbour.
round2(t, per) ==
    LET q == (100 * t) \div per
        r == (100 * t) % per
    IN  IF 2 * r < per THEN q
        ELSE IF 2 * r > per THEN q + 1
        ELSE IF q % 2 = 0 THEN q ELSE q + 1

\* lines 23-44: write_clip.  Writing a name again replaces the file.  The row
\* holds the candidate's times rounded to hundredths of a second (per is the
\* number of time units in a second); round(x, 3) of a score that is a whole
\* number of hundredths changes nothing.
write_clip(w, f, result, per) ==
    LET counter == NextCounter(w)
        row == [file_name |-> clip_name(counter),
                start_sec |-> round2(CandStart(result.candidate), per),
                end_sec |-> round2(CandEnd(result.candidate), per),
                duration_sec |-> round2(CandDuration(result.candidate), per),
                speech_score |-> result.speech_score,
                music_score |-> result.music_score,
                whisper_no_speech_prob |-> result.whisper_no_speech_prob,
                whisper_rejected |-> result.whisper_rejected]
        file == [name |-> clip_name(counter),
                 start_sample |-> result.candidate.start_sample,
                 end_sample |-> result.candidate.end_sample]
    IN  [writer |-> [_counter |-> counter, _rows |-> Append(w._rows, row)],
         fs |-> [f EXCEPT !.clips = { c \in @ : c.name # file.name } \cup {file}]]

\* lines 46-50: flush_metadata
flush_metadata(w, f) ==
    IF w._rows = <<>>
    THEN f
    ELSE [f EXCEPT !.metadata = w._rows, !.has_metadata = TRUE]

(***************************************************************************)
(* clip_extraction/pipeline.py: run_pipeline                               *)
(***************************************************************************)
\* domain/ports.py, VADPort.detect: the detector reports the speech regions of
\* the file that fall in the audio it is given, cut at the audio's edges, in
\* times relative to the audio's start.
Detect(regions, ch) ==
    LET cs == ch.chunk_start
        ce == ch.chunk_start + ch.read_duration
        heard == SelectSeq(regions, LAMBDA r : r.start_sec < ce /\ r.end_sec > cs)
    IN  [i \in 1..Len(heard) |->
            AudioSegment(Max(heard[i].start_sec, cs) - cs,
                         Min(heard[i].end_sec, ce) - cs)]

\* Faulty variant of the shift to file time: the chunk's start is not added.
TranslateNoOffset(segs, chunk_start) == segs

\* Faulty variant of the translation: the offset is added a second time.
TranslateTwice(segs, chunk_start) ==
    [i \in 1..Len(segs) |->
        AudioSegment(segs[i].start_sec + 2 * chunk_start,
                     segs[i].end_sec + 2 * chunk_start)]

\* lines 125-127: the segments are moved to file-absolute time
Translate(segs, chunk_start) ==
    [i \in 1..Len(segs) |->
        AudioSegment(segs[i].start_sec + chunk_start, segs[i].end_sec + chunk_start)]

\* Faulty variants of the acceptance test: non-strict comparisons; the weight
\* dropped.
AcceptedNonStrict(speech_score, music_score, threshold) ==
    /\ speech_score >= threshold
    /\ speech_score * 10 >= music_score * 8
AcceptedNoWeight(speech_score, music_score, threshold) ==
    /\ speech_score > threshold
    /\ speech_score > music_score

\* lines 141-144: speech_score > speech_threshold and speech_score >
\* music_score * 0.8, on hundredths
Accepted(speech_score, music_score, threshold) ==
    /\ speech_score > threshold
    /\ speech_score * 10 > music_score * 8

\* Faulty variants of the branch after classification: the test inverted; the
\* skip forgotten.
AfterClassifyInverted(accepted) == IF accepted THEN "continue" ELSE "transcribe"
AfterClassifyNoSkip(accepted) == "transcribe"

\* lines 154-157: a candidate that is not accepted is skipped
AfterClassify(accepted) == IF ~accepted THEN "continue" ELSE "transcribe"

\* Faulty variant of the rejection test: the comparison not strict.
WhisperRejectedNonStrict(no_speech_prob) == no_speech_prob >= NO_SPEECH_THRESHOLD

\* line 160
WhisperRejected(no_speech_prob) == no_speech_prob > NO_SPEECH_THRESHOLD

\* Faulty variant of the candidate loop: the chunk's remaining candidates are
\* dropped.
LoopPcSkipsRest(i, n) == "stream"

\* The for loops of lines 111 and 135: after candidate i of n comes the next
\* candidate, or the next chunk.
LoopPc(i, n) == IF i < n THEN "classify" ELSE "stream"
LoopCi(i, n) == IF i < n THEN i + 1 ELSE 0

\* A call to a port or to the writer: which, for which candidate of which
\* chunk, with the scores the candidate has by then, and the call's outcome
\* (classify: accepted; transcribe and write: whisper_rejected).
Event(op, sc, flag) ==
    [op |-> op, chunk |-> Len(chunks), cand |-> ci, scores |-> sc, flag |-> flag]

\* What the classifier and the transcriber may answer (hundredths).  The pairs
\* sit on and next to both bounds of the acceptance test.
ScorePairs ==
    { [speech_score |-> 50, music_score |-> 50],
      [speech_score |-> 35, music_score |-> 0],
      [speech_score |-> 36, music_score |-> 45],
      [speech_score |-> 41, music_score |-> 50] }
Transcripts == { [no_speech_prob |-> 60], [no_speech_prob |-> 61] }
\* --speech-threshold: the default, and one of the drawn speech scores
SpeechThresholds == { DEFAULT_SPEECH_THRESHOLD, 41 }

\* Faulty variant of the writer's construction: the counter of an earlier
\* writer is carried over.
ConstructWriterKeepsCounter ==
    /\ pc = "init"
    /\ writer' = [_counter |-> writer._counter, _rows |-> <<>>]
    /\ fs' = ClipWriter_init(fs).fs
    /\ pc' = "probe"
    /\ UNCHANGED <<speech, speech_threshold, segments, candidates, ci, scores,
                   transcript, stats, events, stream_vars, grouping_vars, rerun_vars, pagination_vars>>

\* lines 84-89: the run directory is named and the ClipWriter constructed
ConstructWriter ==
    /\ pc = "init"
    /\ writer' = ClipWriter_init(fs).writer
    /\ fs' = ClipWriter_init(fs).fs
    /\ pc' = "probe"
    /\ UNCHANGED <<speech, speech_threshold, segments, candidates, ci, scores,
                   transcript, stats, events, stream_vars, grouping_vars, rerun_vars, pagination_vars>>

\* lines 91-98: probe_duration returns and the counters are set to 0
Probe ==
    /\ pc = "probe"
    /\ stats' = [total_clips |-> 0, total_accepted |-> 0, whisper_rejected_count |-> 0]
    /\ pc' = "stream"
    /\ UNCHANGED <<speech, speech_threshold, segments, candidates, ci, scores,
                   transcript, writer, fs, events, stream_vars, grouping_vars, rerun_vars, pagination_vars>>

\* line 91: probe_duration raises (ffprobe fails on the file)
ProbeRaises ==
    /\ pc = "probe"
    /\ pc' = "aborted"
    /\ UNCHANGED <<speech, speech_threshold, segments, candidates, ci, scores,
                   transcript, stats, writer, fs, events, stream_vars, grouping_vars, rerun_vars, pagination_vars>>

\* line 111: the for loop asks the generator for its next chunk
RunStreamStart ==
    /\ pc = "stream"
    /\ StreamStart
    /\ UNCHANGED <<pipeline_vars, grouping_vars, rerun_vars, pagination_vars>>

RunNextChunk ==
    /\ pc = "stream"
    /\ StreamYield
    /\ pc' = "detect"
    /\ UNCHANGED <<speech, speech_threshold, segments, candidates, ci, scores,
                   transcript, stats, writer, fs, events, grouping_vars, rerun_vars, pagination_vars>>

RunStreamExhausted ==
    /\ pc = "stream"
    /\ StreamStop
    /\ pc' = "flush"
    /\ UNCHANGED <<speech, speech_threshold, segments, candidates, ci, scores,
                   transcript, stats, writer, fs, events, grouping_vars, rerun_vars, pagination_vars>>

\* line 121: vad.detect returns
RunDetect ==
    /\ pc = "detect"
    /\ segments' = Detect(speech, Last(chunks))
    /\ events' = Append(events, Event("detect", NoScores, FALSE))
    /\ pc' = "group"
    /\ UNCHANGED <<speech, speech_threshold, candidates, ci, scores, transcript,
                   stats, writer, fs, stream_vars, grouping_vars, rerun_vars, pagination_vars>>

\* line 121: vad.detect raises
DetectRaises ==
    /\ pc = "detect"
    /\ events' = Append(events, Event("detect_raised", NoScores, FALSE))
    /\ pc' = "aborted"
    /\ UNCHANGED <<speech, speech_threshold, segments, candidates, ci, scores,
                   transcript, stats, writer, fs, stream_vars, grouping_vars, rerun_vars, pagination_vars>>

\* lines 125-135: translation to file time, grouping with the default policy,
\* and the entry of the candidate loop.  len(audio) is the chunk's samples.
RunGroup ==
    /\ pc = "group"
    /\ LET ch == Last(chunks)
           found == pipeline_group_segments(
                        Translate(segments, ch.chunk_start),
                        ch.read_duration * SamplesPerTick, SamplesPerTick,
                        ch.chunk_start,
                        DEFAULT_MIN_DURATION, DEFAULT_MAX_DURATION, DEFAULT_MAX_GAP)
       IN  /\ segments' = Translate(segments, ch.chunk_start)
           /\ candidates' = found
           /\ ci' = LoopCi(0, Len(found))
           /\ pc' = LoopPc(0, Len(found))
    /\ events' = Append(events, Event("group", NoScores, FALSE))
    /\ UNCHANGED <<speech, speech_threshold, scores, transcript, stats, writer, fs,
                   stream_vars, grouping_vars, rerun_vars, pagination_vars>>

\* Faulty variant of the classification step: a rejected candidate is counted
\* as accepted.
ClassifyWithCountsRejected(sc) ==
    LET accepted == Accepted(sc.speech_score, sc.music_score, speech_threshold)
        after == AfterClassify(accepted)
    IN  /\ scores' = sc
        /\ events' = Append(events, Event("classify", sc, accepted))
        /\ stats' = [stats EXCEPT !.total_clips = @ + 1, !.total_accepted = @ + 1]
        /\ pc' = IF after = "transcribe" THEN "transcribe"
                 ELSE LoopPc(ci, Len(candidates))
        /\ ci' = IF after = "transcribe" THEN ci
                 ELSE LoopCi(ci, Len(candidates))
        /\ UNCHANGED <<speech, speech_threshold, segments, candidates, transcript,
                       writer, fs, stream_vars, grouping_vars>>

\* lines 136-157 for a classifier answering sc: the candidate is counted and
\* classified; an accepted one is counted as accepted, a rejected one skipped
ClassifyWith(sc) ==
    LET accepted == Accepted(sc.speech_score, sc.music_score, speech_threshold)
        after == AfterClassify(accepted)
    IN  /\ scores' = sc
        /\ events' = Append(events, Event("classify", sc, accepted))
        /\ stats' = [stats EXCEPT
                        !.total_clips = @ + 1,
                        !.total_accepted =
                            IF after = "transcribe" THEN @ + 1 ELSE @]
        /\ pc' = IF after = "transcribe" THEN "transcribe"
                 ELSE LoopPc(ci, Len(candidates))
        /\ ci' = IF after = "transcribe" THEN ci
                 ELSE LoopCi(ci, Len(candidates))
        /\ UNCHANGED <<speech, speech_threshold, segments, candidates, transcript,
                       writer, fs, stream_vars, grouping_vars>>

\* lines 136-157: classifier.classify returns
RunClassify ==
    /\ pc = "classify"
    /\ \E sc \in ScorePairs : ClassifyWith(sc)
    /\ UNCHANGED <<rerun_vars, pagination_vars>>

\* line 138: classifier.classify raises, after the candidate was counted
ClassifyRaises ==
    /\ pc = "classify"
    /\ stats' = [stats EXCEPT !.total_clips = @ + 1]
    /\ events' = Append(events, Event("classify_raised", NoScores, FALSE))
    /\ pc' = "aborted"
    /\ UNCHANGED <<speech, speech_threshold, segments, candidates, ci, scores,
                   transcript, writer, fs, stream_vars, grouping_vars, rerun_vars, pagination_vars>>

\* lines 159-167: transcriber.transcribe returns; the rejection flag is set and
\* counted
TranscribeWith(t) ==
    /\ transcript' = t
    /\ events' = Append(events,
                        Event("transcribe", scores, WhisperRejected(t.no_speech_prob)))
    /\ stats' = [stats EXCEPT
                    !.whisper_rejected_count =
                        IF WhisperRejected(t.no_speech_prob) THEN @ + 1 ELSE @]
    /\ pc' = "write"
    /\ UNCHANGED <<speech, speech_threshold, segments, candidates, ci, scores,
                   writer, fs, stream_vars, grouping_vars>>

\* line 159: transcriber.transcribe returns
RunTranscribe ==
    /\ pc = "transcribe"
    /\ \E t \in Transcripts : TranscribeWith(t)
    /\ UNCHANGED <<rerun_vars, pagination_vars>>

\* Faulty variant of the raising transcribe call: the error is swallowed and the
\* loop goes on with the next candidate.
TranscribeRaisesSwallowed ==
    /\ pc = "transcribe"
    /\ events' = Append(events, Event("transcribe_raised", scores, FALSE))
    /\ pc' = LoopPc(ci, Len(candidates))
    /\ ci' = LoopCi(ci, Len(candidates))
    /\ UNCHANGED <<speech, speech_threshold, segments, candidates, scores,
                   transcript, stats, writer, fs, stream_vars, grouping_vars, rerun_vars, pagination_vars>>

\* line 159: transcriber.transcribe raises
TranscribeRaises ==
    /\ pc = "transcribe"
    /\ events' = Append(events, Event("transcribe_raised", scores, FALSE))
    /\ pc' = "aborted"
    /\ UNCHANGED <<speech, speech_threshold, segments, candidates, ci, scores,
                   transcript, stats, writer, fs, stream_vars, grouping_vars, rerun_vars, pagination_vars>>

\* lines 169-180: the ClipResult is built and handed to writer.write_clip
RunWrite ==
    /\ pc = "write"
    /\ LET clip_result ==
               [candidate |-> candidates[ci],
                speech_score |-> scores.speech_score,
                music_score |-> scores.music_score,
                accepted |-> TRUE,
                whisper_no_speech_prob |-> transcript.no_speech_prob,
                whisper_rejected |-> WhisperRejected(transcript.no_speech_prob)]
           written == write_clip(writer, fs, clip_result, Ticks(1))
       IN  /\ writer' = written.writer
           /\ fs' = written.fs
           /\ events' = Append(events, Event("write", scores, clip_result.whisper_rejected))
    /\ pc' = LoopPc(ci, Len(candidates))
    /\ ci' = LoopCi(ci, Len(candidates))
    /\ UNCHANGED <<speech, speech_threshold, segments, candidates, scores,
                   transcript, stats, stream_vars, grouping_vars, rerun_vars, pagination_vars>>

\* lines 182-196: the metadata is flushed and the run returns
RunFlush ==
    /\ pc = "flush"
    /\ fs' = flush_metadata(writer, fs)
    /\ events' = Append(events, Event("flush", NoScores, FALSE))
    /\ pc' = "done"
    /\ UNCHANGED <<speech, speech_threshold, segments, candidates, ci, scores,
                   transcript, stats, writer, stream_vars, grouping_vars, rerun_vars, pagination_vars>>

\* The files of the pipeline runs: a duration and the speech regions in it,
\* time-ordered and apart, with their edges every 3 ticks.
RECURSIVE Regions(_, _)
Regions(n, d) ==
    IF n = 0 THEN {<<>>}
    ELSE LET prev == Regions(n - 1, d)
             grid == { 3 * k : k \in 0..(d \div 3) }
         IN  prev \cup
             { Append(p, AudioSegment(s, e)) :
                 <<p, s, e>> \in
                   { <<p, s, e>> \in { q \in prev : Len(q) = n - 1 } \X grid \X grid :
                       /\ s < e
                       /\ (p # <<>> => Last(p).end_sec < s) } }

\* A file whose first chunk holds two candidates: two regions of 5 s, 2 s apart,
\* read in chunks of 12 s.  A file of 6 s of speech read in chunks of 2 s, no
\* longer than the overlap.
RunScenarios ==
    { [file_duration |-> 30, chunk_duration_sec |-> 12,
       speech |-> <<AudioSegment(0, 10), AudioSegment(14, 24)>>],
      [file_duration |-> 12, chunk_duration_sec |-> 2,
       speech |-> <<AudioSegment(0, 12)>>] }

Init ==
    /\ \/ /\ file_duration \in { 6 * k : k \in 0..MaxRunFileSteps }
          /\ speech \in Regions(MaxRegions, file_duration)
          /\ chunk_duration_sec \in 6..MaxRunChunkSec
       \/ \E sc \in RunScenarios :
             /\ file_duration = sc.file_duration
             /\ speech = sc.speech
             /\ chunk_duration_sec = sc.chunk_duration_sec
    /\ overlap_sec = DEFAULT_OVERLAP_SEC
    /\ speech_threshold \in SpeechThresholds
    /\ total_sec = 0 /\ pos = 0 /\ chunks = <<>> /\ stream_pc = "start"
    /\ pc = "init"
    /\ segments = <<>> /\ candidates = <<>> /\ ci = 0
    /\ scores = NoScores /\ transcript = NoTranscript
    /\ stats = [total_clips |-> 0, total_accepted |-> 0, whisper_rejected_count |-> 0]
    /\ writer = [_counter |-> 0, _rows |-> <<>>]
    /\ fs = [clips_dir |-> FALSE, clips |-> {}, metadata |-> <<>>, has_metadata |-> FALSE]
    /\ events = <<>>
    /\ GroupingUnused
    /\ RerunUnused
    /\ PaginationUnused

Next ==
    \/ ConstructWriter
    \/ Probe
    \/ ProbeRaises
    \/ RunStreamStart
    \/ RunNextChunk
    \/ RunStreamExhausted
    \/ RunDetect
    \/ DetectRaises
    \/ RunGroup
    \/ RunClassify
    \/ ClassifyRaises
    \/ RunTranscribe
    \/ TranscribeRaises
    \/ RunWrite
    \/ RunFlush

Spec == Init /\ [][Next]_vars

(***************************************************************************)
(* Claims about run_pipeline (checked under Spec)                          *)
(***************************************************************************)
\* The acceptance policy as the design states it, on hundredths: speech_score
\* above the threshold and above 0.8 times music_score, both strictly.
PassesPolicy(sc, threshold) ==
    sc.speech_score > threshold /\ 10 * sc.speech_score > 8 * sc.music_score

JustClassified == events # <<>> /\ Last(events).op = "classify"

\* C9: a candidate is accepted for transcription if and only if speech_score >
\* speech_threshold and speech_score > music_score * 0.8, both strict; with the
\* default threshold 0.35, speech 0.5 / music 0.5 is accepted and a score equal
\* to either bound is rejected.
C9_AcceptedIffPolicy ==
    JustClassified =>
        /\ (pc = "transcribe") <=> PassesPolicy(scores, speech_threshold)
        /\ Last(events).flag <=> PassesPolicy(scores, speech_threshold)
        /\ (speech_threshold = 35 /\ scores.speech_score = 50
               /\ scores.music_score = 50 => pc = "transcribe")
        /\ (scores.speech_score = speech_threshold => pc # "transcribe")
        /\ (10 * scores.speech_score = 8 * scores.music_score => pc # "transcribe")

\* C9 witness: under the default threshold, speech 0.5 / music 0.5 has just
\* been accepted.
C9_Witness ==
    /\ JustClassified
    /\ speech_threshold = DEFAULT_SPEECH_THRESHOLD
    /\ scores = [speech_score |-> 50, music_score |-> 50]
    /\ pc = "transcribe"

EventsOf(op, e) ==
    { j \in 1..Len(events) :
        events[j].op = op /\ events[j].chunk = e.chunk /\ events[j].cand = e.cand }

\* C10: in a run that completes, every candidate that passes the acceptance
\* policy is transcribed exactly once and then handed to write_clip exactly
\* once, whether or not its rejection flag is set.
C10_AcceptedTranscribedAndWrittenOnce ==
    pc = "done" =>
        \A i \in 1..Len(events) :
            events[i].op = "classify"
               /\ PassesPolicy(events[i].scores, speech_threshold)
            => /\ Cardinality(EventsOf("transcribe", events[i])) = 1
               /\ Cardinality(EventsOf("write", events[i])) = 1
               /\ \A t \in EventsOf("transcribe", events[i]),
                     w \in EventsOf("write", events[i]) :
                     /\ i < t /\ t < w
                     /\ events[w].flag = events[t].flag

\* C10 witness: a completed run that wrote one clip with the rejection flag
\* set and one without.
C10_Witness ==
    /\ pc = "done"
    /\ \E i, j \in 1..Len(events) :
          /\ events[i].op = "write" /\ events[i].flag
          /\ events[j].op = "write" /\ ~events[j].flag

Classified == { i \in 1..Len(events) : events[i].op = "classify" }
Counted == { i \in 1..Len(events) : events[i].op \in {"classify", "classify_raised"} }

\* C11: a candidate rejected at classification is counted in the
\* candidates-evaluated total but never passed to the transcriber or to the
\* writer; the transcriber is only called on a candidate after that candidate's
\* classification returned an accepting result.
C11_RejectedNeverTranscribedOrWritten ==
    /\ stats.total_clips = Cardinality(Counted)
    /\ \A i \in Classified :
          ~PassesPolicy(events[i].scores, speech_threshold)
          => /\ EventsOf("transcribe", events[i]) = {}
             /\ EventsOf("transcribe_raised", events[i]) = {}
             /\ EventsOf("write", events[i]) = {}
    /\ \A j \in 1..Len(events) :
          events[j].op \in {"transcribe", "transcribe_raised", "write"}
          => \E i \in Classified :
                /\ i < j
                /\ events[i].chunk = events[j].chunk
                /\ events[i].cand = events[j].cand
                /\ PassesPolicy(events[i].scores, speech_threshold)

\* C11 witness: a completed run that rejected one candidate at classification
\* and wrote another.
C11_Witness ==
    /\ pc = "done"
    /\ \E i \in Classified : ~events[i].flag
    /\ \E j \in 1..Len(events) : events[j].op = "write"

Rows == { writer._rows[n] : n \in 1..Len(writer._rows) }

\* C12: for every accepted candidate the rejection flag is true exactly when
\* the transcriber's no_speech_prob is strictly above 0.6, and the run's
\* transcriber-rejected count equals the number of written clips whose flag is
\* true (once the clip just transcribed has been written).
C12_RejectedIffNoSpeechAboveThreshold ==
    /\ \A n \in 1..Len(writer._rows) :
          writer._rows[n].whisper_rejected
              <=> writer._rows[n].whisper_no_speech_prob > 60
    /\ \A j \in 1..Len(events) :
          events[j].op = "write"
          => \A t \in EventsOf("transcribe", events[j]) :
                events[t].flag = events[j].flag
    /\ (pc # "write"
        => stats.whisper_rejected_count =
             Cardinality({ n \in 1..Len(writer._rows) :
                             writer._rows[n].whisper_rejected }))

\* C12 witness: a completed run with a clip at no_speech_prob 0.6, not flagged,
\* and a clip above it, flagged.
C12_Witness ==
    /\ pc = "done"
    /\ \E r \in Rows : r.whisper_no_speech_prob = 60 /\ ~r.whisper_rejected
    /\ \E r \in Rows : r.whisper_no_speech_prob = 61 /\ r.whisper_rejected

\* C15: a run in which no speech is detected or no candidate is accepted
\* finishes without error and leaves an output directory that contains a
\* metadata file with no rows.
C15_EmptyRunLeavesEmptyMetadataFile ==
    pc = "done" /\ stats.total_accepted = 0
    => fs.has_metadata /\ fs.metadata = <<>>

\* C16: if the input file is missing, unreadable or cannot be probed, the run
\* raises before any output is produced: no run directory, clips folder, clip
\* file or metadata file has been created at that moment.
C16_InputErrorBeforeAnyOutput ==
    pc = "aborted" /\ events = <<>>
    => ~fs.clips_dir /\ fs.clips = {} /\ ~fs.has_metadata

Raised ==
    { i \in 1..Len(events) :
        events[i].op \in {"detect_raised", "classify_raised", "transcribe_raised"} }

\* C17: when a detect, classify or transcribe call raises, the whole run is
\* aborted: the raising call is the last call of the run (no retry, no later
\* chunk or candidate is detected, classified, transcribed or written),
\* flush_metadata is not invoked and the run ends in the error.
C17_RaiseAbortsRun ==
    Raised # {}
    => /\ pc = "aborted"
       /\ Raised = {Len(events)}
       /\ \A i \in 1..Len(events) : events[i].op # "flush"
       /\ ~fs.has_metadata

\* C17 witness: a run aborted by a raising transcribe call after an earlier
\* clip was written, with a further candidate or chunk still to come.
C17_Witness ==
    /\ pc = "aborted"
    /\ events # <<>>
    /\ events[Len(events)].op = "transcribe_raised"
    /\ \E i \in 1..Len(events) : events[i].op = "write"
    /\ (ci < Len(candidates) \/ stream_pc # "done")

\* C18: after every run, completed or aborted, the output directory is
\* self-consistent: whenever clip files exist there is a metadata file, every
\* metadata row names a clip file that is present, there is exactly one row per
\* clip file and one clip file per accepted clip that was written.
C18_OutputSelfConsistent ==
    pc \in {"done", "aborted"}
    => /\ (fs.clips # {} => fs.has_metadata)
       /\ \A n \in 1..Len(fs.metadata) :
             \E c \in fs.clips : c.name = fs.metadata[n].file_name
       /\ \A c \in fs.clips :
             Cardinality({ n \in 1..Len(fs.metadata) :
                             fs.metadata[n].file_name = c.name }) = 1
       /\ Cardinality(fs.clips) =
             Cardinality({ i \in 1..Len(events) : events[i].op = "write" })

\* C20: within one run the metadata rows are in file-time order: a clip written
\* before another does not start after it, also when the two clips come from
\* different, overlapping chunks.
C20_RowsInFileTimeOrder ==
    \A i, j \in 1..Len(writer._rows) :
        i < j
        => /\ writer._rows[i].file_name = clip_name(i)
           /\ writer._rows[j].file_name = clip_name(j)
           /\ writer._rows[i].start_sec <= writer._rows[j].start_sec

\* C20 witness: a completed run with two clips from different chunks, the later
\* one starting inside the earlier one.
C20_Witness ==
    /\ pc = "done"
    /\ \E i, j \in 1..Len(events) :
          /\ i < j
          /\ events[i].op = "write" /\ events[j].op = "write"
          /\ events[i].chunk < events[j].chunk
    /\ \E i, j \in 1..Len(writer._rows) :
          /\ i < j
          /\ writer._rows[j].start_sec < writer._rows[i].end_sec

(***************************************************************************)
(* A ClipWriter on its own: write_clip and flush_metadata called in any    *)
(* order.                                                                  *)
(***************************************************************************)
\* The clip results handed to the writer: accepted clips of 5 s at two places
\* of the file, not rejected and rejected by the transcriber.
WriterResults ==
    { [candidate |-> MakeCandidate(<<AudioSegment(s, s + 10)>>, 60, SamplesPerTick, 0),
       speech_score |-> 50,
       music_score |-> 0,
       accepted |-> TRUE,
       whisper_no_speech_prob |-> p,
       whisper_rejected |-> WhisperRejected(p)] : s \in {0, 12}, p \in {60, 61} }

NoFiles == [clips_dir |-> FALSE, clips |-> {}, metadata |-> <<>>, has_metadata |-> FALSE]

InitWriter ==
    /\ writer = ClipWriter_init(NoFiles).writer
    /\ fs = ClipWriter_init(NoFiles).fs
    /\ events = <<>>
    /\ pc = "unused" /\ speech = <<>> /\ speech_threshold = DEFAULT_SPEECH_THRESHOLD
    /\ segments = <<>> /\ candidates = <<>> /\ ci = 0
    /\ scores = NoScores /\ transcript = NoTranscript
    /\ stats = [total_clips |-> 0, total_accepted |-> 0, whisper_rejected_count |-> 0]
    /\ StreamUnused
    /\ GroupingUnused
    /\ RerunUnused
    /\ PaginationUnused

\* writer.write_clip(result)
WriteClipCall ==
    /\ Len(events) < MaxWriterCalls
    /\ \E result \in WriterResults :
          LET written == write_clip(writer, fs, result, Ticks(1))
          IN  /\ writer' = written.writer
              /\ fs' = written.fs
              /\ events' = Append(events,
                                  Event("write",
                                        [speech_score |-> result.speech_score,
                                         music_score |-> result.music_score],
                                        result.whisper_rejected))
    /\ UNCHANGED <<pc, speech, speech_threshold, segments, candidates, ci, scores,
                   transcript, stats, stream_vars, grouping_vars, rerun_vars, pagination_vars>>

\* writer.flush_metadata()
FlushMetadataCall ==
    /\ Len(events) < MaxWriterCalls
    /\ fs' = flush_metadata(writer, fs)
    /\ events' = Append(events, Event("flush", NoScores, FALSE))
    /\ UNCHANGED <<pc, speech, speech_threshold, segments, candidates, ci, scores,
                   transcript, stats, writer, stream_vars, grouping_vars, rerun_vars, pagination_vars>>

NextWriter ==
    \/ WriteClipCall
    \/ FlushMetadataCall

SpecWriter == InitWriter /\ [][NextWriter]_vars

WriteStep == Len(events') = Len(events) + 1 /\ Last(events').op = "write"
FlushStep == Len(events') = Len(events) + 1 /\ Last(events').op = "flush"

\* C13: within one ClipWriter, over any sequence of write_clip and
\* flush_metadata calls, the n-th write gets sequence number n, starting at 1,
\* so the numbers strictly increase; no two writes produce the same clip file
\* name, and a clip file once written is never rewritten or deleted.
C13_SequenceNumbersIncrease ==
    [][ /\ \A c \in fs.clips : c \in fs'.clips
        /\ writer'._counter >= writer._counter
        /\ (WriteStep
            => /\ writer'._counter = writer._counter + 1
               /\ writer'._counter =
                    Cardinality({ i \in 1..Len(events') : events'[i].op = "write" })
               /\ Len(writer'._rows) = writer'._counter
               /\ Last(writer'._rows).file_name = clip_name(writer'._counter)
               /\ \A n \in 1..Len(writer._rows) :
                     writer._rows[n].file_name # Last(writer'._rows).file_name
               /\ \A c \in fs.clips : c.name # clip_name(writer'._counter)
               /\ \E c \in fs'.clips : c.name = clip_name(writer'._counter))
      ]_vars

\* C13 witness: a writer that wrote a clip, flushed, and wrote again.
C13_Witness ==
    /\ pc = "unused"
    /\ fs.has_metadata
    /\ Len(writer._rows) >= 2
    /\ Len(fs.metadata) < Len(writer._rows)
    /\ Cardinality(fs.clips) = Len(writer._rows)

\* C14: flush_metadata is idempotent: a call right after another call leaves
\* the persisted table as it was; no call changes the in-memory rows or the
\* counter; a call made when no row was ever written writes nothing; any other
\* call persists exactly the accumulated rows.
C14_FlushIdempotent ==
    [][ FlushStep
        => /\ writer' = writer
           /\ (writer._rows = <<>> => fs' = fs)
           /\ (writer._rows # <<>>
               => fs' = [fs EXCEPT !.metadata = writer._rows, !.has_metadata = TRUE])
           /\ (events # <<>> /\ Last(events).op = "flush" => fs' = fs)
      ]_vars

\* C14 witness: a writer with rows flushed twice in a row.
C14_Witness ==
    /\ pc = "unused"
    /\ Len(events) >= 3
    /\ events[Len(events)].op = "flush"
    /\ events[Len(events) - 1].op = "flush"
    /\ writer._rows # <<>>
    /\ fs.metadata = writer._rows

(***************************************************************************)
(* run_pipeline run twice on one file with the same arguments, the         *)
(* detector, the classifier and the transcriber being functions of the     *)
(* audio they are given.                                                   *)
(***************************************************************************)
\* candidate.audio: the candidate's slice of the chunk, told by the file's
\* samples it holds
CandAudio(candidate, ch) ==
    <<ch.chunk_start * SamplesPerTick + candidate.start_sample,
      ch.chunk_start * SamplesPerTick + candidate.end_sample>>

\* What a port that is a function answers for an audio: what it answered before
\* for that audio, or anything when the audio is new.
Answers(asked, audio, all) ==
    IF \E a \in asked : a.audio = audio
    THEN { a.answer : a \in { b \in asked : b.audio = audio } }
    ELSE all

\* The classifier's answers in the two runs: a pair the default policy accepts
\* and a pair it rejects.
RerunScorePairs == { sc \in ScorePairs : sc.speech_score \in {35, 50} }

InitRerun ==
    /\ file_duration \in { 6 * k : k \in 0..MaxRunFileSteps }
    /\ speech \in Regions(MaxRegions, file_duration)
    /\ chunk_duration_sec \in 6..MaxRunChunkSec
    /\ overlap_sec = DEFAULT_OVERLAP_SEC
    /\ speech_threshold = DEFAULT_SPEECH_THRESHOLD
    /\ total_sec = 0 /\ pos = 0 /\ chunks = <<>> /\ stream_pc = "start"
    /\ pc = "init" /\ segments = <<>> /\ candidates = <<>> /\ ci = 0
    /\ scores = NoScores /\ transcript = NoTranscript
    /\ stats = [total_clips |-> 0, total_accepted |-> 0, whisper_rejected_count |-> 0]
    /\ writer = [_counter |-> 0, _rows |-> <<>>]
    /\ fs = NoFiles
    /\ events = <<>>
    /\ GroupingUnused
    /\ RerunUnused
    /\ PaginationUnused

\* line 138 with a classifier that is a function of the audio
ClassifyAsFunction ==
    /\ pc = "classify"
    /\ LET audio == CandAudio(candidates[ci], Last(chunks))
       IN  \E sc \in Answers(classified, audio, RerunScorePairs) :
              /\ ClassifyWith(sc)
              /\ classified' = classified \cup {[audio |-> audio, answer |-> sc]}
    /\ UNCHANGED <<run, first_rows, transcribed, pagination_vars>>

\* line 159 with a transcriber that is a function of the audio
TranscribeAsFunction ==
    /\ pc = "transcribe"
    /\ LET audio == CandAudio(candidates[ci], Last(chunks))
       IN  \E t \in Answers(transcribed, audio, Transcripts) :
              /\ TranscribeWith(t)
              /\ transcribed' = transcribed \cup {[audio |-> audio, answer |-> t]}
    /\ UNCHANGED <<run, first_rows, classified, pagination_vars>>

\* The first run has returned; run_pipeline is called again with the same
\* arguments.  Its locals are new, its run directory has a new timestamp; the
\* ClipWriter of the first run is garbage until line 89 makes a new one.
SecondRun ==
    /\ pc = "done"
    /\ run = 1
    /\ run' = 2
    /\ first_rows' = writer._rows
    /\ pc' = "init"
    /\ total_sec' = 0 /\ pos' = 0 /\ chunks' = <<>> /\ stream_pc' = "start"
    /\ segments' = <<>> /\ candidates' = <<>> /\ ci' = 0
    /\ scores' = NoScores /\ transcript' = NoTranscript
    /\ stats' = [total_clips |-> 0, total_accepted |-> 0, whisper_rejected_count |-> 0]
    /\ fs' = NoFiles
    /\ events' = <<>>
    /\ UNCHANGED <<file_duration, chunk_duration_sec, overlap_sec, speech,
                   speech_threshold, writer, classified, transcribed, grouping_vars,
                   pagination_vars>>

NextRerun ==
    \/ ConstructWriter
    \/ Probe
    \/ RunStreamStart
    \/ RunNextChunk
    \/ RunStreamExhausted
    \/ RunDetect
    \/ RunGroup
    \/ ClassifyAsFunction
    \/ TranscribeAsFunction
    \/ RunWrite
    \/ RunFlush
    \/ SecondRun

SpecRerun == InitRerun /\ [][NextRerun]_vars

\* C19: running run_pipeline twice on the same file with the same parameters
\* and a deterministic detector, classifier and transcriber yields identical
\* metadata rows: the rows of the second run are, one after the other, the rows
\* of the first, with the same file names, and the persisted table is the same.
C19_RerunYieldsSameRows ==
    run = 2
    => /\ Len(writer._rows) <= Len(first_rows) \/ pc \in {"init", "probe"}
       /\ (pc \notin {"init", "probe"}
           => \A n \in 1..Len(writer._rows) : writer._rows[n] = first_rows[n])
       /\ (pc = "done"
           => /\ writer._rows = first_rows
              /\ fs.metadata = first_rows
              /\ fs.has_metadata = (first_rows # <<>>))

\* C19 witness: a second run that has returned after writing two clips, one of
\* them rejected by the transcriber.
C19_Witness ==
    /\ run = 2
    /\ pc = "done"
    /\ Len(first_rows) >= 2
    /\ \E n \in 1..Len(writer._rows) : writer._rows[n].whisper_rejected
    /\ \E n \in 1..Len(writer._rows) : ~writer._rows[n].whisper_rejected

\* The place in the call log of the n-th write_clip call, and the chunk it was
\* made for.
WriteEvent(n) ==
    CHOOSE i \in 1..Len(events) :
        /\ events[i].op = "write"
        /\ Cardinality({ k \in 1..i : events[k].op = "write" }) = n
RowChunk(n) == events[WriteEvent(n)].chunk

\* C21: across one run the chunk overlap never produces duplicated material: no
\* two clips made from different chunks cover intersecting stretches of file
\* time.
C21_NoDuplicatedMaterial ==
    \A m, n \in 1..Len(writer._rows) :
        RowChunk(m) # RowChunk(n)
        => \/ writer._rows[m].end_sec <= writer._rows[n].start_sec
           \/ writer._rows[n].end_sec <= writer._rows[m].start_sec

\* The transitions of the run's state machine: INIT ("init", "probe"),
\* STREAMING ("stream"), DETECT, GROUP, CLASSIFY, TRANSCRIBE, WRITE, FINALIZE
\* ("flush", "done"), and the abort on an error.
Forward ==
    { <<"init", "probe">>, <<"probe", "stream">>, <<"probe", "aborted">>,
      <<"stream", "stream">>, <<"stream", "detect">>, <<"stream", "flush">>,
      <<"detect", "group">>, <<"detect", "aborted">>,
      <<"group", "classify">>, <<"group", "stream">>,
      <<"classify", "transcribe">>, <<"classify", "classify">>,
      <<"classify", "stream">>, <<"classify", "aborted">>,
      <<"transcribe", "write">>, <<"transcribe", "aborted">>,
      <<"write", "classify">>, <<"write", "stream">>,
      <<"flush", "done">> }

Flushes(log) == { i \in 1..Len(log) : log[i].op = "flush" }

\* One step of a run in the order of the state machine.  strict tells whether
\* a new chunk must start after the one before it, or may start where it
\* started.
OrderedStep(strict) ==
    /\ <<pc, pc'>> \in Forward
    \* chunks come once each, front to back
    /\ \/ chunks' = chunks
       \/ /\ pc = "stream" /\ pc' = "detect"
          /\ Len(chunks') = Len(chunks) + 1
          /\ SubSeq(chunks', 1, Len(chunks)) = chunks
          /\ (chunks # <<>>
              => /\ Last(chunks').pos > Last(chunks).pos
                 /\ Last(chunks').chunk_start >= Last(chunks).chunk_start
                 /\ (strict => Last(chunks').chunk_start > Last(chunks).chunk_start))
    \* the candidates are those of the chunk's grouping, taken one after the
    \* other, all of them before the next chunk
    /\ (candidates' # candidates => pc = "group")
    /\ (pc' \in {"classify", "transcribe", "write"}
        => /\ ci' \in 1..Len(candidates')
           /\ \E i \in 1..Len(events') :
                 events'[i].op = "group" /\ events'[i].chunk = Len(chunks'))
    /\ (pc \in {"classify", "write"} /\ pc' = "classify" => ci' = ci + 1)
    /\ (pc = "group" /\ pc' = "classify" => ci' = 1)
    /\ (pc \in {"classify", "write"} /\ pc' = "stream" => ci = Len(candidates))
    /\ (pc = "group" /\ pc' = "stream" => candidates' = <<>>)
    /\ (pc' \in {"stream", "detect"} => ci' = 0)
    \* one flush, after the last write, and then the run is over
    /\ Cardinality(Flushes(events')) <= 1
    /\ (Flushes(events') # {} => pc' = "done" /\ Flushes(events') = {Len(events')})
    /\ (pc' = "done" => Flushes(events') # {})

\* C22: a run follows INIT -> STREAMING -> (per chunk: DETECT -> GROUP -> per
\* candidate: CLASSIFY -> [TRANSCRIBE] -> WRITE) -> FINALIZE with no backward
\* transition: chunks are processed once each in strictly increasing start
\* order, no candidate is classified before its chunk's grouping is complete,
\* all candidates of a chunk are finished before the next chunk is detected,
\* and the metadata is flushed exactly once, after the last write.
C22_RunFollowsStateMachine == [][OrderedStep(TRUE)]_vars

\* C22, amended: as above, with the chunks' read starts strictly increasing when
\* chunk_duration exceeds the overlap of 2 s, and never decreasing otherwise
\* (the chunks' positions always strictly increase).
C22_RunFollowsStateMachineLargeChunk ==
    [][OrderedStep(chunk_duration_sec > overlap_sec)]_vars

\* C22 witness: a completed run of two chunks or more in which a chunk had two
\* candidates, one rejected by the classifier and one written.
C22_Witness ==
    /\ pc = "done"
    /\ Len(chunks) >= 2
    /\ \E i, j \in 1..Len(events) :
          /\ events[i].op = "classify" /\ ~events[i].flag
          /\ events[j].op = "write"
          /\ events[i].chunk = events[j].chunk
          /\ events[i].cand # events[j].cand

\* The join rule as a rule on the input alone: GroupStart(k) is the index of
\* the first segment of the group that segment k is in.  Segment k joins the
\* group of segment k - 1 if and only if (a) its start is at most max_gap after
\* the end of segment k - 1 and (b) its end is at most max_duration after the
\* start of that group's first segment.
RECURSIVE GroupStart(_)
GroupStart(k) ==
    IF k = 1 THEN 1
    ELSE LET first == GroupStart(k - 1)
             a == call.segments[k].start_sec - call.segments[k - 1].end_sec
                      <= call.max_gap
             b == call.segments[k].end_sec - call.segments[first].start_sec
                      <= call.max_duration
         IN  IF a /\ b THEN first ELSE k

\* The last segment of the group that starts at segment i.
GroupEnd(i) ==
    CHOOSE j \in i..Len(call.segments) :
        /\ GroupStart(j) = i
        /\ (j < Len(call.segments) => GroupStart(j + 1) = j + 1)

\* The groups of the rule that span at least min_duration, in input order, each
\* as its first and last index.
RECURSIVE KeptGroupsFrom(_)
KeptGroupsFrom(i) ==
    IF i > Len(call.segments) THEN <<>>
    ELSE LET j == GroupEnd(i)
             span == call.segments[j].end_sec - call.segments[i].start_sec
         IN  (IF span >= call.min_duration THEN << <<i, j>> >> ELSE <<>>)
                 \o KeptGroupsFrom(j + 1)

\* C23: during the scan a segment joins the current group if and only if its
\* gap to the group's last segment is <= max_gap and the span from the group's
\* first segment to its end is <= max_duration, both inclusive; otherwise the
\* group is closed and a new one starts with that segment, and the last group
\* is always closed.  So consecutive segments that all meet both bounds and
\* span at least min_duration give exactly one candidate, from the first start
\* to the last end; no segments give no candidate.
C23_JoinsIffGapAndSpanWithinBounds ==
    returned =>
        LET kept == KeptGroupsFrom(1)
        IN  /\ Len(results) = Len(kept)
            /\ \A n \in 1..Len(kept) :
                  results[n].segments = SubSeq(call.segments, kept[n][1], kept[n][2])
            /\ (call.segments = <<>> => results = <<>>)
            /\ (call.segments # <<>>
                   /\ (\A k \in 1..Len(call.segments) : GroupStart(k) = 1)
                   /\ Last(call.segments).end_sec - call.segments[1].start_sec
                          >= call.min_duration
                => /\ Len(results) = 1
                   /\ CandStart(results[1]) = call.segments[1].start_sec
                   /\ CandEnd(results[1]) = Last(call.segments).end_sec)

\* C23 witness: a call in which a segment joined at a gap of exactly max_gap, a
\* candidate spans exactly max_duration, and a later segment started a new
\* group.
C23_Witness ==
    /\ returned
    /\ Len(call.segments) = 3
    /\ call.max_gap > 0
    /\ call.segments[2].start_sec - call.segments[1].end_sec = call.max_gap
    /\ GroupStart(2) = 1
    /\ GroupStart(3) = 3
    /\ results # <<>>
    /\ CandDuration(results[1]) = call.max_duration

(***************************************************************************)
(* The sample slice of one group (segment_grouping.py lines 47-50), for     *)
(* times in ticks and a sample rate in samples per second, so that a span   *)
(* may end between two samples.                                             *)
(***************************************************************************)
\* The group's span lies in the audio it is cut from: it starts at or after
\* audio_start_sec.
SliceCalls ==
    { [start_sec |-> b, end_sec |-> e, audio_start_sec |-> a, sample_rate |-> r,
       audio_len |-> n] :
        <<a, b, e, r, n>> \in
          { <<a, b, e, r, n>> \in (0..MaxSliceTime) \X (0..MaxSliceTime)
                                    \X (0..MaxSliceTime) \X (1..MaxSliceRate)
                                    \X (0..MaxSliceLen) :
              a <= b /\ b < e } }

InitSlice ==
    /\ call \in SliceCalls
    /\ results = <<>>
    /\ returned = FALSE
    /\ StreamUnused
    /\ PipelineUnused
    /\ RerunUnused
    /\ PaginationUnused

\* lines 47-50 on the call's group; a second is 2 ticks
SliceCall ==
    /\ ~returned
    /\ results' = <<SliceIndices(call.start_sec, call.end_sec, call.audio_start_sec,
                                 call.sample_rate, 2, call.audio_len)>>
    /\ returned' = TRUE
    /\ UNCHANGED <<call, stream_vars, pipeline_vars, rerun_vars, pagination_vars>>

NextSlice == SliceCall

SpecSlice == InitSlice /\ [][NextSlice]_vars

\* n is the whole part of (t - audio_start_sec) * sample_rate, t in ticks
IsFloorOf(n, t) ==
    /\ 2 * n <= (t - call.audio_start_sec) * call.sample_rate
    /\ (t - call.audio_start_sec) * call.sample_rate < 2 * (n + 1)

\* C24: the audio slice of a candidate runs from sample
\* floor((group start - audio_start_sec) * sample_rate) to sample
\* floor((group end - audio_start_sec) * sample_rate), the end held down to the
\* number of samples of the chunk: a span that overruns the chunk's tail gives
\* a shorter slice, never an index past the audio.
C24_SliceIndicesFlooredAndClamped ==
    returned =>
        /\ IsFloorOf(results[1].start_sample, call.start_sec)
        /\ results[1].end_sample <= call.audio_len
        /\ \/ IsFloorOf(results[1].end_sample, call.end_sec)
           \/ /\ results[1].end_sample = call.audio_len
              /\ \E n \in (call.audio_len + 1)..(MaxSliceTime * MaxSliceRate) :
                    IsFloorOf(n, call.end_sec)

\* C24 witness: a span whose start falls between two samples and whose end
\* overruns the audio.
C24_Witness ==
    /\ returned
    /\ 2 * results[1].start_sample
           < (call.start_sec - call.audio_start_sec) * call.sample_rate
    /\ results[1].start_sample > 0
    /\ results[1].end_sample = call.audio_len
    /\ ~IsFloorOf(results[1].end_sample, call.end_sec)

\* ceil(a / b) for b > 0
CeilDiv(a, b) == (a + b - 1) \div b

\* C25: stream_chunks requests chunk 0 as (start 0, duration min(C, D)) and
\* chunk k >= 1 as (start max(0, k*C - O), duration min(C + O, D - start)), in
\* increasing k, and the chunk_start it yields is the requested start; for
\* D = 30, C = 10, O = 2 the requests are (0, 10), (8, 12), (18, 12).
C25_RequestsFollowFormula ==
    LET C == Ticks(chunk_duration_sec)
        O == Ticks(overlap_sec)
        D == file_duration
    IN  /\ \A n \in 1..Len(chunks) :
              LET k == n - 1
                  ch == chunks[n]
              IN  /\ ch.pos = k * C
                  /\ ch.chunk_start = ch.read_start
                  /\ (k = 0 => ch.read_start = 0 /\ ch.read_duration = Min(C, D))
                  /\ (k >= 1 => /\ ch.read_start = Max(0, k * C - O)
                                /\ ch.read_duration = Min(C + O, D - ch.read_start))
        /\ (D = 60 /\ chunk_duration_sec = 10 /\ overlap_sec = 2 /\ stream_pc = "done"
            => [n \in 1..Len(chunks) |-> <<chunks[n].read_start, chunks[n].read_duration>>]
                  = << <<0, 20>>, <<16, 24>>, <<36, 24>> >>)

\* C25 witness: the generator exhausted after three chunks or more, the start
\* of the second held at 0 or the last one cut at the end of the file.
C25_Witness ==
    /\ stream_pc = "done"
    /\ file_duration <= MaxFileDuration
    /\ Len(chunks) >= 3
    /\ overlap_sec > 0
    /\ Last(chunks).read_duration < Ticks(chunk_duration_sec) + Ticks(overlap_sec)

\* C26: for every duration D >= 0 and chunk duration C >= 1, stream_chunks
\* ends after yielding exactly ceil(D / C) chunks, none when D = 0, whatever
\* the overlap: it never yields more, and each turn of the loop moves pos on by
\* C.
C26_YieldsCeilChunks ==
    LET n == CeilDiv(file_duration, Ticks(chunk_duration_sec))
    IN  /\ Len(chunks) <= n
        /\ (stream_pc = "loop" => pos = Len(chunks) * Ticks(chunk_duration_sec))
        /\ (stream_pc = "loop" /\ Len(chunks) < n => pos < total_sec)
        /\ (stream_pc = "done" => Len(chunks) = n)
        /\ (stream_pc = "done" /\ file_duration = 0 => chunks = <<>>)

\* C26 witness: a file that is not a whole number of chunks, read to its end
\* with an overlap as long as the chunk or longer.
C26_Witness ==
    /\ stream_pc = "done"
    /\ file_duration % Ticks(chunk_duration_sec) # 0
    /\ overlap_sec >= chunk_duration_sec
    /\ Len(chunks) >= 3

(***************************************************************************)
(* db_sync/pagination.py: paginate_table                                   *)
(***************************************************************************)
\* line 7
PAGE_SIZE == 1000

\* query.range(start, end).execute().data on a table that does not change
\* during the call: the rows start..end of the selection, both ends included,
\* counted from 0, as many of them as there are.
Range0(rows, start, end) == SubSeq(rows, start + 1, Min(end + 1, Len(rows)))

\* Faulty variant of the stop test: a full page stops the loop as well.
LastPageOrFull(batch) == Len(batch) <= PAGE_SIZE

\* line 38: if len(batch) < PAGE_SIZE: break
LastPage(batch) == Len(batch) < PAGE_SIZE

\* The tables of the calls: rows 1..n, n a whole number of pages or a few rows
\* over or under it.
TableSizes ==
    { k * PAGE_SIZE + d : k \in 0..MaxFullPages, d \in 0..MaxOddRows }
        \cup { k * PAGE_SIZE - d : k \in 1..(MaxFullPages + 1), d \in 1..MaxOddRows }

InitPaginate ==
    /\ \E n \in TableSizes : table = [i \in 1..n |-> i]
    /\ all_rows = <<>>                                      \* line 27
    /\ offset = 0                                           \* line 28
    /\ requests = <<>>
    /\ page_pc = "loop"
    /\ GroupingUnused
    /\ StreamUnused
    /\ PipelineUnused
    /\ RerunUnused

\* lines 30-40: one turn of the loop
FetchPage ==
    /\ page_pc = "loop"
    /\ LET batch == Range0(table, offset, offset + PAGE_SIZE - 1)
       IN  /\ requests' = Append(requests, <<offset, offset + PAGE_SIZE - 1>>)
           /\ all_rows' = all_rows \o batch
           /\ IF LastPage(batch)
              THEN page_pc' = "done" /\ offset' = offset
              ELSE page_pc' = "loop" /\ offset' = offset + PAGE_SIZE
    /\ UNCHANGED <<table, grouping_vars, stream_vars, pipeline_vars, rerun_vars>>

NextPaginate == FetchPage

SpecPaginate == InitPaginate /\ [][NextPaginate]_vars

\* C27: paginate_table requests the consecutive row ranges
\* [k*PAGE_SIZE, (k+1)*PAGE_SIZE - 1] for k = 0, 1, 2, ..., stops after the
\* first page that has fewer than PAGE_SIZE rows (an empty page included), and
\* returns the pages joined in request order: for a table of n rows it ends
\* after floor(n / PAGE_SIZE) + 1 requests with all n rows, each exactly once.
C27_PagesAreConsecutiveAndComplete ==
    page_pc # "unused" =>
        /\ \A k \in 1..Len(requests) :
              requests[k] = <<(k - 1) * PAGE_SIZE, k * PAGE_SIZE - 1>>
        /\ all_rows = SubSeq(table, 1, Min(Len(table), Len(requests) * PAGE_SIZE))
        /\ (page_pc = "loop" => Len(table) >= Len(requests) * PAGE_SIZE)
        /\ (page_pc = "done"
            => /\ Len(table) < Len(requests) * PAGE_SIZE
               /\ Len(table) >= (Len(requests) - 1) * PAGE_SIZE
               /\ Len(requests) = (Len(table) \div PAGE_SIZE) + 1
               /\ all_rows = table)

\* C27 witness: a table of a whole number of pages fetched to the end, the last
\* page empty.
C27_Witness ==
    /\ page_pc = "done"
    /\ Len(table) = 2 * PAGE_SIZE
    /\ Len(requests) = 3
    /\ Len(all_rows) = 2 * PAGE_SIZE

(***************************************************************************)
(* One chunk of run_pipeline from detection to the written clip            *)
(* (pipeline.py lines 121-131 and 169-180, writer.py lines 23-44), for      *)
(* times in units of 4 ms, 250 to the second, and the default sample rate   *)
(* of 16000, 64 samples to the unit: a detected segment may start and end   *)
(* between two hundredths of a second, as the detector's sample positions   *)
(* do.                                                                      *)
(***************************************************************************)
\* The chunks are the first two of a file of 14 s read with chunk_duration 6
\* and the overlap of 2 s; the detector reports one segment of 5 s or a little
\* more near the start of the chunk audio, in chunk-relative time.
ClipCalls ==
    { [per |-> 250,
       sample_rate |-> 16000,
       chunk_start |-> ReadStart(p * 250, DEFAULT_OVERLAP_SEC * 250),
       read_duration |-> ReadDuration(p * 250,
                                      ReadStart(p * 250, DEFAULT_OVERLAP_SEC * 250),
                                      6 * 250, DEFAULT_OVERLAP_SEC * 250, 14 * 250),
       detected |-> <<AudioSegment(s, s + 5 * 250 + d)>>] :
        p \in {0, 6}, s \in 0..MaxClipJitter, d \in 0..MaxClipJitter }

InitClip ==
    /\ call \in ClipCalls
    /\ results = <<>>
    /\ returned = FALSE
    /\ StreamUnused
    /\ PipelineUnused
    /\ RerunUnused
    /\ PaginationUnused

\* lines 121-131 and 169-180 for the call's chunk, with a fresh writer; the
\* policy defaults are converted from ticks to the call's units
ClipCall ==
    /\ ~returned
    /\ LET unit == call.per \div Ticks(1)
           rate == call.sample_rate \div call.per
           segs == Translate(call.detected, call.chunk_start)
           cands == pipeline_group_segments(
                        segs, call.read_duration * rate, rate, call.chunk_start,
                        DEFAULT_MIN_DURATION * unit, DEFAULT_MAX_DURATION * unit,
                        DEFAULT_MAX_GAP * unit)
           fresh == ClipWriter_init(NoFiles)
       IN  results' =
               [i \in 1..Len(cands) |->
                   LET clip_result == [candidate |-> cands[i],
                                       speech_score |-> 50,
                                       music_score |-> 0,
                                       accepted |-> TRUE,
                                       whisper_no_speech_prob |-> 0,
                                       whisper_rejected |-> WhisperRejected(0)]
                       written == write_clip(fresh.writer, fresh.fs, clip_result,
                                             call.per)
                   IN  [segments |-> segs,
                        candidate |-> cands[i],
                        row |-> Last(written.writer._rows),
                        file |-> CHOOSE c \in written.fs.clips : TRUE]]
    /\ returned' = TRUE
    /\ UNCHANGED <<call, stream_vars, pipeline_vars, rerun_vars, pagination_vars>>

NextClip == ClipCall

SpecClip == InitClip /\ [][NextClip]_vars

\* Every segment handed to grouping is the detector's segment moved by the
\* start of the chunk read, once.
TranslatedOnce ==
    \A r \in Range(results) :
        /\ Len(r.segments) = Len(call.detected)
        /\ \A i \in 1..Len(r.segments) :
              /\ r.segments[i].start_sec = call.detected[i].start_sec + call.chunk_start
              /\ r.segments[i].end_sec = call.detected[i].end_sec + call.chunk_start

\* The candidate's times lie in the window of the chunk read.
InChunkWindow ==
    \A r \in Range(results) :
        /\ call.chunk_start <= CandStart(r.candidate)
        /\ CandEnd(r.candidate) <= call.chunk_start + call.read_duration

\* The file time, in units, at which sample n of the chunk audio is taken,
\* times the samples in a unit.
SampleTime(n) == call.chunk_start * (call.sample_rate \div call.per) + n

\* The samples written are the chunk audio from the candidate's start_sec to
\* its end_sec.
SliceIsCandidateSpan ==
    \A r \in Range(results) :
        /\ SampleTime(r.file.start_sample)
               = CandStart(r.candidate) * (call.sample_rate \div call.per)
        /\ SampleTime(r.file.end_sample)
               = CandEnd(r.candidate) * (call.sample_rate \div call.per)

\* C28: every detected segment is translated to file-absolute time exactly
\* once, by adding the start of the chunk actually read, before grouping; each
\* candidate's start_sec and end_sec lie inside its chunk's window, and the
\* audio slice written for a clip is the chunk audio for exactly the file-time
\* span recorded in its metadata row.
C28_SliceIsRecordedSpan ==
    returned =>
        /\ results # <<>>
        /\ TranslatedOnce
        /\ InChunkWindow
        /\ \A r \in Range(results) :
              /\ SampleTime(r.file.start_sample) * 100
                     = r.row.start_sec * call.sample_rate
              /\ SampleTime(r.file.end_sample) * 100
                     = r.row.end_sec * call.sample_rate

\* C28 amended: every detected segment is translated to file-absolute time
\* exactly once, by adding the start of the chunk actually read, before
\* grouping; each candidate's start_sec and end_sec lie inside its chunk's
\* window, the audio slice written for a clip is the chunk audio for exactly
\* the candidate's span, and the metadata row records that span rounded to the
\* hundredth of a second: each recorded bound is within 0.005 s of the bound of
\* the audio written.
C28_SliceIsRecordedSpanToHundredth ==
    returned =>
        /\ results # <<>>
        /\ TranslatedOnce
        /\ InChunkWindow
        /\ SliceIsCandidateSpan
        /\ \A r \in Range(results) :
              /\ 2 * (SampleTime(r.file.start_sample) * 100
                          - r.row.start_sec * call.sample_rate) <= call.sample_rate
              /\ 2 * (r.row.start_sec * call.sample_rate
                          - SampleTime(r.file.start_sample) * 100) <= call.sample_rate
              /\ 2 * (SampleTime(r.file.end_sample) * 100
                          - r.row.end_sec * call.sample_rate) <= call.sample_rate
              /\ 2 * (r.row.end_sec * call.sample_rate
                          - SampleTime(r.file.end_sample) * 100) <= call.sample_rate

\* C28 witness: a clip written from the second chunk, read from 4 s on, whose
\* segment starts between two hundredths of a second; the row records the
\* nearest hundredth.
C28_Witness ==
    /\ returned
    /\ results # <<>>
    /\ call.chunk_start > 0
    /\ (100 * CandStart(results[1].candidate)) % call.per # 0
    /\ results[1].row.start_sec * call.per # 100 * CandStart(results[1].candidate)
    /\ results[1].file.start_sample > 0

\* The run is between the acceptance of a candidate and the return of its
\* write_clip call (lines 157-180), or was aborted there.
MidCandidate ==
    \/ pc \in {"transcribe", "write"}
    \/ /\ pc = "aborted"
       /\ events # <<>>
       /\ Last(events).op = "transcribe_raised"

\* C29: at every point of a run transcriber_rejected_count <= total_accepted
\* <= total_clips, and after each candidate has been fully processed
\* total_accepted equals the ClipWriter's sequence counter and its number of
\* accumulated metadata rows (while an accepted candidate is being transcribed
\* and written, total_accepted is one ahead of both).
C29_StatisticsConsistent ==
    /\ stats.whisper_rejected_count <= stats.total_accepted
    /\ stats.total_accepted <= stats.total_clips
    /\ writer._counter = Len(writer._rows)
    /\ IF MidCandidate
       THEN stats.total_accepted = writer._counter + 1
       ELSE stats.total_accepted = writer._counter

\* C29 witness: a run that has returned after a candidate rejected by the
\* classifier, a clip rejected by the transcriber and a clip not rejected.
C29_Witness ==
    /\ pc = "done"
    /\ stats.total_clips > stats.total_accepted
    /\ stats.total_accepted > stats.whisper_rejected_count
    /\ stats.whisper_rejected_count > 0
    /\ Len(writer._rows) = stats.total_accepted

(***************************************************************************)
(* The two definitions of group_segments on the same arguments:            *)
(* clip_extraction/domain/segment_grouping.py lines 12-58 and               *)
(* clip_extraction/pipeline.py lines 19-65.                                 *)
(***************************************************************************)
\* The grouping calls again, the audio starting at 0 or later in the file (the
\* segments not before it) and being as long as the file or two ticks shorter,
\* so that a group may overrun it.
BothCalls ==
    { [c EXCEPT !.audio_start_sec = a, !.audio_len = @ - cut * SamplesPerTick] :
        <<c, a, cut>> \in
          { <<c, a, cut>> \in GroupingCalls \X (0..MaxStartOffset) \X {0, 2} :
              \A i \in 1..Len(c.segments) : c.segments[i].start_sec >= a } }

InitBoth ==
    /\ call \in BothCalls
    /\ results = <<>>
    /\ returned = FALSE
    /\ StreamUnused
    /\ PipelineUnused
    /\ RerunUnused
    /\ PaginationUnused

\* segment_grouping.group_segments and pipeline.group_segments are called with
\* the same arguments; the first returns into results, the second into
\* candidates, the local run_pipeline assigns it to (line 129)
GroupBothCall ==
    /\ ~returned
    /\ results' = group_segments(call.segments, call.audio_len, call.sample_rate,
                                 call.audio_start_sec, call.min_duration,
                                 call.max_duration, call.max_gap)
    /\ candidates' = pipeline_group_segments(
                         call.segments, call.audio_len, call.sample_rate,
                         call.audio_start_sec, call.min_duration,
                         call.max_duration, call.max_gap)
    /\ returned' = TRUE
    /\ UNCHANGED <<call, pc, speech, speech_threshold, segments, ci, scores,
                   transcript, stats, writer, fs, events, stream_vars, rerun_vars,
                   pagination_vars>>

NextBoth == GroupBothCall

SpecBoth == InitBoth /\ [][NextBoth]_vars

\* C30: the group_segments of clip_extraction/pipeline.py (the one run_pipeline
\* calls) and the group_segments of clip_extraction/domain/segment_grouping.py
\* (the one the tests exercise) are equivalent: for every segment list, audio
\* length, sample rate, start offset and policy they return the same candidates
\* with the same segments and the same sample index ranges.
C30_BothGroupSegmentsAgree ==
    returned =>
        /\ Len(candidates) = Len(results)
        /\ \A i \in 1..Len(results) :
              /\ candidates[i].segments = results[i].segments
              /\ candidates[i].start_sample = results[i].start_sample
              /\ candidates[i].end_sample = results[i].end_sample

\* C30 witness: a call on audio that starts after 0, with a group that is
\* dropped and a group that is kept and overruns the audio, so that its slice
\* is cut at the audio's end.
C30_Witness ==
    /\ returned
    /\ call.audio_start_sec > 0
    /\ Len(call.segments) >= 2
    /\ Len(candidates) = 1
    /\ CandStart(candidates[1]) > call.segments[1].start_sec
    /\ candidates[1].end_sample = call.audio_len
    /\ (CandEnd(candidates[1]) - call.audio_start_sec) * call.sample_rate
           > call.audio_len

=============================================================================
